---- MODULE Spec2Model ----
(***************************************************************************)
(* The training loop of script/train.py (train and validation) as a state  *)
(* machine.  The model, the optimizer, the dataset and the metric are      *)
(* opaque collaborators: a parameter set is identified by the gradient     *)
(* step that produced it, a batch by its length, its loss and its score.   *)
(* Floating-point quotients are kept as exact fractions [num, den].        *)
(***************************************************************************)
EXTENDS Integers, Sequences, FiniteSets, TLC

\* ---- bounds of the explored inputs ----
MaxMaxIter == 3       \* --max-iter ranges over 0..MaxMaxIter
MaxTrainBatches == 2  \* the train split holds 0..MaxTrainBatches batches
MaxValBatches == 1    \* the val split holds 0..MaxValBatches batches
MaxInterval == 2      \* --valid-niter and --log-every range over 1..MaxInterval
MaxPatience == 2      \* --patience ranges over 0..MaxPatience
MaxTrial == 2         \* --max-num-trial ranges over 0..MaxTrial
MaxLoss == 2          \* a batch loss ranges over 1..MaxLoss
MaxBatchLen == 2      \* a train batch holds 1..MaxBatchLen samples
MaxValBatchLen == 1   \* a val batch holds 1..MaxValBatchLen samples
MaxScore == 2         \* the metric of a validation batch ranges over 0..MaxScore

\* ---- program constants ----
LrNum == 1            \* --lr default 0.001 = LrNum / LrDen
LrDen == 1000
LrDecayNum == 1       \* --lr-decay default 0.5 = LrDecayNum / LrDecayDen
LrDecayDen == 2

VARIABLES
    args,           \* the configuration bundle (fixed after Init)
    dataset,        \* number of batches of the train and the val split
    pc,             \* position of the single thread of control
    iteration,      \* train: iteration
    batch_idx,      \* position of the for loop in the current pass over the train split
    cum_samples, report_samples, report_loss, cum_loss,
    val_scores, patience, num_trial,
    lr,             \* train: local lr
    model,          \* [training, params]
    optimizer,      \* [lr, state]
    model_file,     \* <model-save-path>
    optim_file,     \* <model-save-path>.optim
    val,            \* locals of validation(): was_training, idx, cum_score, cum_samples
    val_score,      \* value returned by the last validation()
    writer,         \* SummaryWriter: scalars written so far
    exit_code,      \* process exit status, -1 while running
    steps,          \* history: number of optimizer.step() calls
    since_log       \* history: the (loss, len) of the batches since the last log emission

vars == <<args, dataset, pc, iteration, batch_idx, cum_samples, report_samples,
          report_loss, cum_loss, val_scores, patience, num_trial, lr, model,
          optimizer, model_file, optim_file, val, val_score, writer, exit_code,
          steps, since_log>>

\* ---- fractions (Python float quotients, kept exact) ----
Frac(n, d) == [num |-> n, den |-> d]
FracGT(a, b) == a.num * b.den > b.num * a.den
FracMul(a, b) == [num |-> a.num * b.num, den |-> a.den * b.den]

\* A checkpoint file: absent, or the blob written at validation number `val`
\* (1-based) of training iteration `iter`.  `params` is the model's parameter
\* set (model file) or the optimizer's moment state (.optim file); the .optim
\* file also stores the learning rate of the optimizer's param group.
NoFile == [exists |-> FALSE, val |-> 0, iter |-> -1, params |-> 0, lr |-> Frac(0, 1)]
NoScore == Frac(0, 1)

\* ---- pure helpers ----
\* line 126: while iteration <= max_iter
LoopCond(it, max_iter) == it <= max_iter

\* np.max(val_scores) of a non-empty list
NpMax(scores) ==
    scores[CHOOSE i \in 1..Len(scores) :
              \A j \in 1..Len(scores) : ~FracGT(scores[j], scores[i])]

\* Faulty variant of IsBetter: >= in place of >.
IsBetterGE(score, scores) ==
    Len(scores) = 0 \/ ~FracGT(NpMax(scores), score)

\* Faulty variant of IsBetter: the first validation is not an improvement.
IsBetterNoFirst(score, scores) ==
    Len(scores) > 0 /\ FracGT(score, NpMax(scores))

\* line 177: is_better = len(val_scores) == 0 or val_score > np.max(val_scores)
IsBetter(score, scores) ==
    Len(scores) = 0 \/ FracGT(score, NpMax(scores))

\* Faulty variant of DecayedLr: the factor is applied twice.
DecayedLrTwice(l) ==
    FracMul(l, Frac(LrDecayNum * LrDecayNum, LrDecayDen * LrDecayDen))

\* line 196: optimizer.param_groups[0]['lr'] * float(args['--lr-decay'])
DecayedLr(l) == FracMul(l, Frac(LrDecayNum, LrDecayDen))

\* Faulty variant of ReloadedOptimizer: the learning rate of the checkpoint
\* is kept.
ReloadedOptimizerFileLr(file, new_lr) == [lr |-> file.lr, state |-> file.params]

\* lines 204-208: optimizer.load_state_dict(torch.load(...)), then every
\* param group gets the new learning rate
ReloadedOptimizer(file, new_lr) == [lr |-> new_lr, state |-> file.params]

\* Faulty variant of EarlyStop: > in place of ==.
EarlyStopGT(trials, max_num_trial) == trials > max_num_trial

\* line 192: num_trial == int(args['--max-num-trial'])
EarlyStop(trials, max_num_trial) == trials = max_num_trial

\* lines 151, 163: iteration % n == 0
Every(it, n) == it % n = 0

\* ---- initial state: lines 81-125 ----
Init ==
    /\ args \in [max_iter : 0..MaxMaxIter,
                 valid_niter : 1..MaxInterval,
                 log_every : 1..MaxInterval,
                 patience : 0..MaxPatience,
                 max_num_trial : 0..MaxTrial]
    /\ dataset \in [n_train : 0..MaxTrainBatches, n_val : 0..MaxValBatches]
    /\ pc = "while"
    /\ iteration = 0
    /\ batch_idx = 0
    /\ cum_samples = 0 /\ report_samples = 0
    /\ report_loss = 0 /\ cum_loss = 0
    /\ val_scores = <<>>
    /\ patience = 0 /\ num_trial = 0
    /\ lr = Frac(LrNum, LrDen)
    /\ model = [training |-> TRUE, params |-> 0]
    /\ optimizer = [lr |-> Frac(LrNum, LrDen), state |-> 0]
    /\ model_file = NoFile
    /\ optim_file = NoFile
    /\ val = [was_training |-> FALSE, idx |-> 0, cum_score |-> 0, cum_samples |-> 0]
    /\ val_score = NoScore
    /\ writer = [n_loss |-> 0, last_loss |-> NoScore, n_val |-> 0, closed |-> FALSE]
    /\ exit_code = -1
    /\ steps = 0
    /\ since_log = <<>>

\* Faulty variant of WhileTest: the loop is never left.
WhileTestNoExit ==
    /\ pc = "while"
    /\ LoopCond(iteration, args.max_iter)
    /\ pc' = "for"
    /\ batch_idx' = 0
    /\ UNCHANGED <<args, dataset, iteration, cum_samples, report_samples,
                   report_loss, cum_loss, val_scores, patience, num_trial, lr,
                   model, optimizer, model_file, optim_file, val, val_score,
                   writer, exit_code, steps, since_log>>

\* ---- line 126: the while test; lines 214, 238: normal end ----
WhileTest ==
    /\ pc = "while"
    /\ IF LoopCond(iteration, args.max_iter)
          THEN /\ pc' = "for"
               /\ batch_idx' = 0
               /\ UNCHANGED <<writer, exit_code>>
          ELSE /\ pc' = "done"
               /\ writer' = [writer EXCEPT !.closed = TRUE]
               /\ exit_code' = 0
               /\ UNCHANGED batch_idx
    /\ UNCHANGED <<args, dataset, iteration, cum_samples, report_samples,
                   report_loss, cum_loss, val_scores, patience, num_trial, lr,
                   model, optimizer, model_file, optim_file, val, val_score,
                   steps, since_log>>

\* Faulty variant of EpochEnd: a new pass restarts the iteration counter.
EpochEndReset ==
    /\ pc = "for"
    /\ batch_idx >= dataset.n_train
    /\ pc' = "while"
    /\ iteration' = 0
    /\ UNCHANGED <<args, dataset, batch_idx, cum_samples,
                   report_samples, report_loss, cum_loss, val_scores, patience,
                   num_trial, lr, model, optimizer, model_file, optim_file, val,
                   val_score, writer, exit_code, steps, since_log>>

\* ---- line 127: the train split is exhausted, back to the while test ----
EpochEnd ==
    /\ pc = "for"
    /\ batch_idx >= dataset.n_train
    /\ pc' = "while"
    /\ UNCHANGED <<args, dataset, iteration, batch_idx, cum_samples,
                   report_samples, report_loss, cum_loss, val_scores, patience,
                   num_trial, lr, model, optimizer, model_file, optim_file, val,
                   val_score, writer, exit_code, steps, since_log>>

\* ---- lines 127-149: next batch, forward, loss, backward, optimizer step ----
TrainStep ==
    /\ pc = "for"
    /\ batch_idx < dataset.n_train
    /\ \E batch_loss_val \in 1..MaxLoss, len \in 1..MaxBatchLen :
          /\ cum_samples' = cum_samples + len
          /\ report_samples' = report_samples + len
          /\ report_loss' = report_loss + batch_loss_val
          /\ cum_loss' = cum_loss + batch_loss_val
          /\ since_log' = Append(since_log, [loss |-> batch_loss_val, len |-> len])
    /\ steps' = steps + 1
    /\ model' = [model EXCEPT !.params = steps + 1]
    /\ optimizer' = [optimizer EXCEPT !.state = steps + 1]
    /\ batch_idx' = batch_idx + 1
    /\ pc' = "log"
    /\ UNCHANGED <<args, dataset, iteration, val_scores, patience, num_trial,
                   lr, model_file, optim_file, val, val_score, writer, exit_code>>

\* Faulty variant of LogStep: report_loss is not zeroed.
LogStepNoReset ==
    /\ pc = "log"
    /\ IF Every(iteration, args.log_every)
          THEN /\ writer' = [writer EXCEPT
                                !.n_loss = @ + 1,
                                !.last_loss = Frac(report_loss, report_samples)]
               /\ report_samples' = 0
               /\ since_log' = <<>>
               /\ UNCHANGED report_loss
          ELSE UNCHANGED <<writer, report_samples, report_loss, since_log>>
    /\ pc' = "valid"
    /\ UNCHANGED <<args, dataset, iteration, batch_idx, cum_samples, cum_loss,
                   val_scores, patience, num_trial, lr, model, optimizer,
                   model_file, optim_file, val, val_score, exit_code, steps>>

\* Faulty variant of LogStep: the scalar is written at every iteration.
LogStepEveryIter ==
    /\ pc = "log"
    /\ writer' = [writer EXCEPT
                     !.n_loss = @ + 1,
                     !.last_loss = Frac(report_loss, report_samples)]
    /\ report_samples' = 0
    /\ report_loss' = 0
    /\ since_log' = <<>>
    /\ pc' = "valid"
    /\ UNCHANGED <<args, dataset, iteration, batch_idx, cum_samples, cum_loss,
                   val_scores, patience, num_trial, lr, model, optimizer,
                   model_file, optim_file, val, val_score, exit_code, steps>>

\* ---- lines 151-161: log emission ----
LogStep ==
    /\ pc = "log"
    /\ IF Every(iteration, args.log_every)
          THEN /\ writer' = [writer EXCEPT
                                !.n_loss = @ + 1,
                                !.last_loss = Frac(report_loss, report_samples)]
               /\ report_samples' = 0
               /\ report_loss' = 0
               /\ since_log' = <<>>
          ELSE UNCHANGED <<writer, report_samples, report_loss, since_log>>
    /\ pc' = "valid"
    /\ UNCHANGED <<args, dataset, iteration, batch_idx, cum_samples, cum_loss,
                   val_scores, patience, num_trial, lr, model, optimizer,
                   model_file, optim_file, val, val_score, exit_code, steps>>

\* Faulty variant of ValidCheck: the report window is cleared with the
\* cumulative one.
ValidCheckMerged ==
    /\ pc = "valid"
    /\ IF Every(iteration, args.valid_niter)
          THEN /\ cum_samples' = 0
               /\ cum_loss' = 0
               /\ report_samples' = 0
               /\ report_loss' = 0
               /\ pc' = "validation"
          ELSE /\ pc' = "incr"
               /\ UNCHANGED <<cum_samples, cum_loss, report_samples, report_loss>>
    /\ UNCHANGED <<args, dataset, iteration, batch_idx,
                   val_scores, patience, num_trial, lr, model,
                   optimizer, model_file, optim_file, val, val_score, writer,
                   exit_code, steps, since_log>>

\* Faulty variant of ValidCheck: validation after every valid-niter-th step.
ValidCheckShifted ==
    /\ pc = "valid"
    /\ IF Every(iteration + 1, args.valid_niter)
          THEN /\ cum_samples' = 0
               /\ cum_loss' = 0
               /\ pc' = "validation"
          ELSE /\ pc' = "incr"
               /\ UNCHANGED <<cum_samples, cum_loss>>
    /\ UNCHANGED <<args, dataset, iteration, batch_idx, report_samples,
                   report_loss, val_scores, patience, num_trial, lr, model,
                   optimizer, model_file, optim_file, val, val_score, writer,
                   exit_code, steps, since_log>>

\* ---- lines 163-171: validation is due, or not ----
ValidCheck ==
    /\ pc = "valid"
    /\ IF Every(iteration, args.valid_niter)
          THEN /\ cum_samples' = 0
               /\ cum_loss' = 0
               /\ pc' = "validation"
          ELSE /\ pc' = "incr"
               /\ UNCHANGED <<cum_samples, cum_loss>>
    /\ UNCHANGED <<args, dataset, iteration, batch_idx, report_samples,
                   report_loss, val_scores, patience, num_trial, lr, model,
                   optimizer, model_file, optim_file, val, val_score, writer,
                   exit_code, steps, since_log>>

\* ---- lines 47-54: validation() is entered ----
ValidationEnter ==
    /\ pc = "validation"
    /\ val' = [was_training |-> model.training, idx |-> 0,
               cum_score |-> 0, cum_samples |-> 0]
    /\ pc' = "val_batch"
    /\ UNCHANGED <<args, dataset, iteration, batch_idx, cum_samples,
                   report_samples, report_loss, cum_loss, val_scores, patience,
                   num_trial, lr, model, optimizer, model_file, optim_file,
                   val_score, writer, exit_code, steps, since_log>>

\* ---- lines 56-70: one batch of the val split is scored ----
ValidationBatch ==
    /\ pc = "val_batch"
    /\ val.idx < dataset.n_val
    /\ \E score \in 0..MaxScore, len \in 1..MaxValBatchLen :
          val' = [val EXCEPT !.idx = @ + 1,
                             !.cum_samples = @ + len,
                             !.cum_score = @ + score]
    /\ UNCHANGED <<args, dataset, pc, iteration, batch_idx, cum_samples,
                   report_samples, report_loss, cum_loss, val_scores, patience,
                   num_trial, lr, model, optimizer, model_file, optim_file,
                   val_score, writer, exit_code, steps, since_log>>

\* Faulty variant of ValidationExit: an empty val split scores 0.
ValidationExitGuarded ==
    /\ pc = "val_batch"
    /\ val.idx >= dataset.n_val
    /\ model' = IF val.was_training THEN [model EXCEPT !.training = TRUE] ELSE model
    /\ val_score' = IF val.cum_samples = 0 THEN Frac(0, 1)
                    ELSE Frac(val.cum_score, val.cum_samples)
    /\ writer' = [writer EXCEPT !.n_val = @ + 1]
    /\ pc' = "decide"
    /\ UNCHANGED <<args, dataset, iteration, batch_idx, cum_samples,
                   report_samples, report_loss, cum_loss, val_scores, patience,
                   num_trial, lr, optimizer, model_file, optim_file, val,
                   exit_code, steps, since_log>>

\* ---- lines 72-77 and 172-175: validation() returns, the score is logged ----
ValidationExit ==
    /\ pc = "val_batch"
    /\ val.idx >= dataset.n_val
    /\ model' = IF val.was_training THEN [model EXCEPT !.training = TRUE] ELSE model
    /\ IF val.cum_samples = 0
          THEN \* ZeroDivisionError escapes train()
               /\ pc' = "error"
               /\ exit_code' = 1
               /\ UNCHANGED <<val_score, writer>>
          ELSE /\ val_score' = Frac(val.cum_score, val.cum_samples)
               /\ writer' = [writer EXCEPT !.n_val = @ + 1]
               /\ pc' = "decide"
               /\ UNCHANGED exit_code
    /\ UNCHANGED <<args, dataset, iteration, batch_idx, cum_samples,
                   report_samples, report_loss, cum_loss, val_scores, patience,
                   num_trial, lr, optimizer, model_file, optim_file, val,
                   steps, since_log>>

\* Faulty variant of Decide: an improvement also restarts the trial counter.
DecideResetTrial ==
    /\ pc = "decide"
    /\ val_scores' = Append(val_scores, val_score)
    /\ IF IsBetter(val_score, val_scores)
          THEN /\ patience' = 0
               /\ num_trial' = 0
               /\ pc' = "save_model"
          ELSE IF patience < args.patience
          THEN /\ patience' = patience + 1
               /\ pc' = "trial"
               /\ UNCHANGED num_trial
          ELSE /\ pc' = "incr"
               /\ UNCHANGED <<patience, num_trial>>
    /\ UNCHANGED <<args, dataset, iteration, batch_idx, cum_samples,
                   report_samples, report_loss, cum_loss, lr, model,
                   optimizer, model_file, optim_file, val, val_score, writer,
                   exit_code, steps, since_log>>

\* ---- lines 177-181 and 185-187: compare with the best score so far ----
Decide ==
    /\ pc = "decide"
    /\ val_scores' = Append(val_scores, val_score)
    /\ IF IsBetter(val_score, val_scores)
          THEN /\ patience' = 0
               /\ pc' = "save_model"
          ELSE IF patience < args.patience
          THEN /\ patience' = patience + 1
               /\ pc' = "trial"
          ELSE /\ pc' = "incr"
               /\ UNCHANGED patience
    /\ UNCHANGED <<args, dataset, iteration, batch_idx, cum_samples,
                   report_samples, report_loss, cum_loss, num_trial, lr, model,
                   optimizer, model_file, optim_file, val, val_score, writer,
                   exit_code, steps, since_log>>

\* ---- line 183: model.save(model_save_path) ----
SaveModel ==
    /\ pc = "save_model"
    /\ model_file' = [exists |-> TRUE, val |-> Len(val_scores), iter |-> iteration,
                      params |-> model.params, lr |-> Frac(0, 1)]
    /\ pc' = "save_optim"
    /\ UNCHANGED <<args, dataset, iteration, batch_idx, cum_samples,
                   report_samples, report_loss, cum_loss, val_scores, patience,
                   num_trial, lr, model, optimizer, optim_file, val, val_score,
                   writer, exit_code, steps, since_log>>

\* Faulty variant of SaveOptim: an existing .optim file is not overwritten.
SaveOptimOnce ==
    /\ pc = "save_optim"
    /\ optim_file' = IF optim_file.exists THEN optim_file
                     ELSE [exists |-> TRUE, val |-> Len(val_scores), iter |-> iteration,
                           params |-> optimizer.state, lr |-> optimizer.lr]
    /\ pc' = "incr"
    /\ UNCHANGED <<args, dataset, iteration, batch_idx, cum_samples,
                   report_samples, report_loss, cum_loss, val_scores, patience,
                   num_trial, lr, model, optimizer, model_file, val, val_score,
                   writer, exit_code, steps, since_log>>

\* ---- line 184: torch.save(optimizer.state_dict(), model_save_path + '.optim') ----
SaveOptim ==
    /\ pc = "save_optim"
    /\ optim_file' = [exists |-> TRUE, val |-> Len(val_scores), iter |-> iteration,
                      params |-> optimizer.state, lr |-> optimizer.lr]
    /\ pc' = "incr"
    /\ UNCHANGED <<args, dataset, iteration, batch_idx, cum_samples,
                   report_samples, report_loss, cum_loss, val_scores, patience,
                   num_trial, lr, model, optimizer, model_file, val, val_score,
                   writer, exit_code, steps, since_log>>

\* Faulty variant of DecayTrial: the checkpoint is loaded before the early
\* stop test.
DecayTrialLoadFirst ==
    /\ pc = "trial"
    /\ IF patience /= args.patience
          THEN /\ pc' = "incr"
               /\ UNCHANGED <<num_trial, lr, model, optimizer, patience, exit_code>>
          ELSE /\ num_trial' = num_trial + 1
               /\ lr' = DecayedLr(optimizer.lr)
               /\ model' = [model EXCEPT !.params = model_file.params]
               /\ optimizer' = ReloadedOptimizer(optim_file, DecayedLr(optimizer.lr))
               /\ IF EarlyStop(num_trial + 1, args.max_num_trial)
                     THEN /\ pc' = "stopped"
                          /\ exit_code' = 0
                          /\ UNCHANGED patience
                     ELSE /\ patience' = 0
                          /\ pc' = "incr"
                          /\ UNCHANGED exit_code
    /\ UNCHANGED <<args, dataset, iteration, batch_idx, cum_samples,
                   report_samples, report_loss, cum_loss, val_scores,
                   model_file, optim_file, val, val_score, writer, steps,
                   since_log>>

\* ---- lines 189-210: the decay trial, with early stop ----
DecayTrial ==
    /\ pc = "trial"
    /\ IF patience /= args.patience
          THEN /\ pc' = "incr"
               /\ UNCHANGED <<num_trial, lr, model, optimizer, patience, exit_code>>
          ELSE /\ num_trial' = num_trial + 1
               /\ IF EarlyStop(num_trial + 1, args.max_num_trial)
                     THEN \* exit(0)
                          /\ pc' = "stopped"
                          /\ exit_code' = 0
                          /\ UNCHANGED <<lr, model, optimizer, patience>>
                     ELSE IF ~model_file.exists \/ ~optim_file.exists
                     THEN \* torch.load raises
                          /\ pc' = "error"
                          /\ exit_code' = 1
                          /\ lr' = DecayedLr(optimizer.lr)
                          /\ UNCHANGED <<model, optimizer, patience>>
                     ELSE /\ lr' = DecayedLr(optimizer.lr)
                          /\ model' = [model EXCEPT !.params = model_file.params]
                          /\ optimizer' = ReloadedOptimizer(optim_file,
                                                          DecayedLr(optimizer.lr))
                          /\ patience' = 0
                          /\ pc' = "incr"
                          /\ UNCHANGED exit_code
    /\ UNCHANGED <<args, dataset, iteration, batch_idx, cum_samples,
                   report_samples, report_loss, cum_loss, val_scores,
                   model_file, optim_file, val, val_score, writer, steps,
                   since_log>>

\* ---- line 211: iteration += 1, on to the next batch of the pass ----
Incr ==
    /\ pc = "incr"
    /\ iteration' = iteration + 1
    /\ pc' = "for"
    /\ UNCHANGED <<args, dataset, batch_idx, cum_samples, report_samples,
                   report_loss, cum_loss, val_scores, patience, num_trial, lr,
                   model, optimizer, model_file, optim_file, val, val_score,
                   writer, exit_code, steps, since_log>>

Next ==
    \/ WhileTest
    \/ EpochEnd
    \/ TrainStep
    \/ LogStep
    \/ ValidCheck
    \/ ValidationEnter
    \/ ValidationBatch
    \/ ValidationExit
    \/ Decide
    \/ SaveModel
    \/ SaveOptim
    \/ DecayTrial
    \/ Incr

Spec == Init /\ [][Next]_vars

\* One thread of control that always takes its next step.
FairSpec == Spec /\ WF_vars(Next)

\* ======================= properties =======================

\* The validation (1-based) that holds the best score: the first one no other
\* validation beats.
FirstBest(scores) ==
    CHOOSE i \in 1..Len(scores) :
        /\ \A j \in 1..Len(scores) : scores[j].num * scores[i].den <= scores[i].num * scores[j].den
        /\ \A j \in 1..(i - 1) : scores[j].num * scores[i].den < scores[i].num * scores[j].den

Saving == pc \in {"save_model", "save_optim"}

\* C1: after every validation the saved best checkpoint (model file and
\* optimizer file) is the one written at the validation whose score is the
\* maximum of all scores observed so far; a later validation with a lower or
\* an equal score has not overwritten it.
C1_BestCheckpointKept ==
    (Len(val_scores) > 0 /\ ~Saving) =>
        /\ model_file.exists /\ optim_file.exists
        /\ model_file.val = FirstBest(val_scores)
        /\ optim_file.val = FirstBest(val_scores)

C1_Witness ==
    /\ pc = "incr"
    /\ Len(val_scores) = 3
    /\ model_file.val = 2 /\ optim_file.val = 2
    /\ val_scores[3] = val_scores[2]

\* C2: at every validation, a score strictly greater than all earlier scores
\* (or the first score) sets patience to 0; any other score adds exactly 1 to
\* patience as long as patience is below the configured limit.
C2_PatienceStep ==
    [][pc = "decide" =>
          IF \A i \in 1..Len(val_scores) :
                 val_score.num * val_scores[i].den > val_scores[i].num * val_score.den
          THEN patience' = 0
          ELSE IF patience < args.patience
          THEN patience' = patience + 1
          ELSE patience' = patience]_vars

C2_Witness ==
    /\ pc = "trial"
    /\ args.patience = 2
    /\ patience = 1
    /\ Len(val_scores) = 2

LrDecayedOnce ==
    optimizer'.lr.num * optimizer.lr.den * LrDecayDen
        = optimizer.lr.num * LrDecayNum * optimizer'.lr.den

\* C3 as stated: every time patience reaches the limit the trial counter
\* increases by 1, the learning rate is multiplied by lr-decay once and
\* patience is reset to zero.
C3_Original ==
    [][(pc = "trial" /\ patience = args.patience) =>
          /\ num_trial' = num_trial + 1
          /\ LrDecayedOnce
          /\ patience' = 0]_vars

\* C3 amended: every time patience reaches the limit the trial counter
\* increases by 1; if it thereby equals max-num-trial the process exits with
\* learning rate and patience untouched, otherwise the learning rate is
\* multiplied by lr-decay exactly once and patience is reset to zero.  Trial
\* counter and learning rate change at no other step.
C3_DecayTrial ==
    [][/\ (pc = "trial" /\ patience = args.patience) =>
             /\ num_trial' = num_trial + 1
             /\ IF num_trial + 1 = args.max_num_trial
                   THEN /\ pc' = "stopped"
                        /\ optimizer' = optimizer
                        /\ patience' = patience
                   ELSE /\ LrDecayedOnce
                        /\ patience' = 0
                        /\ pc' = "incr"
       /\ (num_trial' /= num_trial \/ optimizer'.lr /= optimizer.lr) =>
             (pc = "trial" /\ patience = args.patience)]_vars

C3_Witness ==
    /\ pc = "incr"
    /\ num_trial = 1
    /\ patience = 0
    /\ args.patience = 2
    /\ optimizer.lr = Frac(LrNum * LrDecayNum, LrDen * LrDecayDen)

Decreasing3(scores) ==
    /\ Len(scores) = 3
    /\ scores[1].num * scores[2].den > scores[2].num * scores[1].den
    /\ scores[2].num * scores[3].den > scores[3].num * scores[2].den

\* C4: when the trial counter reaches max-num-trial the process stops at that
\* validation with exit code 0 and nothing happens afterwards; with
\* patience=2, max-num-trial=1 and three strictly decreasing scores the loop
\* stops right after the 3rd validation.
C4_EarlyStop ==
    /\ [][/\ (num_trial' /= num_trial /\ num_trial' = args.max_num_trial) =>
                 (pc' = "stopped" /\ exit_code' = 0)
          /\ pc /= "stopped"]_vars
    /\ []((args.patience = 2 /\ args.max_num_trial = 1 /\ Decreasing3(val_scores)) =>
             (pc \in {"trial", "stopped"} /\ (pc = "trial" => patience = 2)))

C4_Witness ==
    /\ pc = "stopped"
    /\ exit_code = 0
    /\ args.patience = 2 /\ args.max_num_trial = 1
    /\ Decreasing3(val_scores)

\* C5: the number of gradient steps never exceeds max-iter.
C5_MaxIterBound == steps <= args.max_iter

\* C6: while validation batches are scored the model is in evaluation mode,
\* and when validation returns the model is back in the mode it had when
\* validation was called.
C6_EvalMode ==
    /\ (pc = "val_batch" => ~model.training)
    /\ (pc = "decide" => model.training = val.was_training)

\* C7 as stated: in every reachable state, between the two writes included,
\* the model file and the .optim file record the same training iteration.
C7_Original == model_file.iter = optim_file.iter

\* C7 amended: in every reachable state other than the one between the two
\* writes of a save, the model file and the .optim file exist together and
\* were written at the same validation of the same training iteration, from
\* the same training state.
C7_FilesTogether ==
    pc /= "save_optim" =>
        /\ model_file.exists = optim_file.exists
        /\ model_file.iter = optim_file.iter
        /\ model_file.val = optim_file.val
        /\ model_file.params = optim_file.params

C7_Witness ==
    /\ pc = "incr"
    /\ model_file.exists /\ optim_file.exists
    /\ model_file.iter > 0
    /\ model_file.val > 1

RECURSIVE SumLoss(_)
SumLoss(batches) ==
    IF batches = <<>> THEN 0 ELSE Head(batches).loss + SumLoss(Tail(batches))

RECURSIVE SumLen(_)
SumLen(batches) ==
    IF batches = <<>> THEN 0 ELSE Head(batches).len + SumLen(Tail(batches))

\* C8: at each log emission the reported average loss is the sum of the batch
\* losses accumulated since the previous emission divided by the number of
\* samples of those batches, and right after the emission both report
\* accumulators are zero.
C8_ReportedLoss ==
    [][(pc = "log" /\ iteration % args.log_every = 0) =>
          /\ writer'.n_loss = writer.n_loss + 1
          /\ writer'.last_loss.num * SumLen(since_log)
                = SumLoss(since_log) * writer'.last_loss.den
          /\ writer'.last_loss.den /= 0
          /\ report_loss' = 0
          /\ report_samples' = 0]_vars

C8_Witness ==
    /\ pc = "valid"
    /\ args.log_every = 2
    /\ iteration = 2
    /\ writer.n_loss = 2
    /\ writer.last_loss = Frac(3, 4)
    /\ report_loss = 0 /\ report_samples = 0

\* Positions between the optimizer step of a batch and its iteration += 1
\* (or the exit that replaces it).
MidBatch ==
    pc \in {"log", "valid", "validation", "val_batch", "decide", "save_model",
             "save_optim", "trial", "incr", "stopped", "error"}

\* C9: the iteration counter increases by exactly 1 for every training batch
\* processed and is never reset or decreased, also when a new pass over the
\* training split starts.
C9_IterationCounter ==
    /\ [][\/ iteration' = iteration
          \/ (pc = "incr" /\ iteration' = iteration + 1)]_vars
    /\ [](steps = iteration + (IF MidBatch THEN 1 ELSE 0))

C9_Witness ==
    /\ pc = "log"
    /\ dataset.n_train = 2
    /\ batch_idx = 1
    /\ iteration = 2
    /\ steps = 3

Terminated == pc \in {"done", "stopped"}

\* C10: with non-empty train and val splits every run terminates, by early
\* stop or by the loop ending normally; the normal end writes no checkpoint,
\* so the files are those of the last best validation.
C10_Terminates ==
    /\ (dataset.n_train > 0 /\ dataset.n_val > 0) => <>Terminated
    /\ [][pc' = "done" => (model_file' = model_file /\ optim_file' = optim_file)]_vars
    /\ []((pc = "done" /\ exit_code = 0 /\ Len(val_scores) > 0) =>
             (model_file.val = FirstBest(val_scores) /\ optim_file.val = FirstBest(val_scores)))

C10_Witness ==
    /\ pc = "done"
    /\ exit_code = 0
    /\ dataset.n_train = 2
    /\ iteration = 4
    /\ Len(val_scores) > 1
    /\ model_file.val < Len(val_scores)

\* The ZeroDivisionError of validation() (line 77) ended the run.
DivisionError ==
    /\ pc = "error"
    /\ exit_code = 1
    /\ val.cum_samples = 0

\* C11 as stated: if the train split or the val split is empty the run ends
\* in a division-by-zero error.
C11_Original ==
    (dataset.n_train = 0 \/ dataset.n_val = 0) => <>DivisionError

\* C11 amended: if the val split is empty and the train split is not, the
\* run ends in a division-by-zero error at the first validation, after a
\* single gradient step; if the train split is empty the loop never processes
\* a batch, never fails and never ends.
C11_EmptySplit ==
    /\ (dataset.n_train > 0 /\ dataset.n_val = 0) => <>DivisionError
    /\ []((dataset.n_train > 0 /\ dataset.n_val = 0) =>
             (steps <= 1 /\ iteration = 0 /\ Len(val_scores) = 0 /\ pc /= "done"))
    /\ [](dataset.n_train = 0 =>
             (pc \in {"while", "for"} /\ steps = 0 /\ iteration = 0 /\ exit_code = -1))
    /\ dataset.n_train = 0 => ([]<>(pc = "while") /\ []<>(pc = "for"))

C11_Witness ==
    /\ DivisionError
    /\ dataset.n_train > 0 /\ dataset.n_val = 0
    /\ steps = 1
    /\ val.idx = 0

\* The score of the validation just recorded beats every earlier score (or
\* is the first).
LastImproves ==
    /\ Len(val_scores) > 0
    /\ \A i \in 1..(Len(val_scores) - 1) :
          val_scores[Len(val_scores)].num * val_scores[i].den
              > val_scores[i].num * val_scores[Len(val_scores)].den

\* C12: a checkpoint file is written only at a validation whose score
\* strictly improves on all earlier ones (or is the first), and the checkpoint
\* is read back into model and optimizer only by a decay trial that does not
\* early-stop; no write happens at a non-improving validation, at a decay
\* trial, at early stop or at the normal end of the loop.
C12_CheckpointIO ==
    [][/\ (model_file' /= model_file \/ optim_file' /= optim_file) =>
             /\ Saving
             /\ LastImproves
             /\ model_file'.val = Len(val_scores)
             /\ pc = "save_optim" => optim_file'.val = Len(val_scores)
       /\ (pc /= "for" /\ (model'.params /= model.params
                             \/ optimizer'.state /= optimizer.state)) =>
             /\ pc = "trial" /\ patience = args.patience
             /\ ~LastImproves
             /\ num_trial + 1 /= args.max_num_trial
             /\ pc' = "incr"
             /\ model'.params = model_file.params
             /\ optimizer'.state = optim_file.params
       /\ (pc \in {"trial", "decide", "while"}) =>
             (model_file' = model_file /\ optim_file' = optim_file)]_vars

C12_Witness ==
    /\ pc = "incr"
    /\ num_trial = 1
    /\ Len(val_scores) = 3
    /\ model_file.val = 1
    /\ model.params = model_file.params
    /\ model.params < steps

\* C13: right after a decay trial that does not early-stop, the model
\* parameters and the optimizer moment state are those of the last best
\* checkpoint, while the learning rate is the one in effect just before the
\* trial multiplied by lr-decay, not the one stored in the .optim file.
C13_ReloadAfterTrial ==
    [][(pc = "trial" /\ patience = args.patience /\ pc' /= "stopped") =>
          /\ model_file.exists /\ optim_file.exists
          /\ model_file.val = FirstBest(val_scores)
          /\ model'.params = model_file.params
          /\ optimizer'.state = optim_file.params
          /\ LrDecayedOnce
          /\ lr' = optimizer'.lr
          /\ optimizer'.lr.num * optim_file.lr.den < optim_file.lr.num * optimizer'.lr.den
          /\ model_file' = model_file /\ optim_file' = optim_file]_vars

C13_Witness ==
    /\ pc = "incr"
    /\ num_trial = 2
    /\ model.params = model_file.params
    /\ optimizer.state = optim_file.params
    /\ model.params < steps
    /\ optim_file.lr = Frac(LrNum, LrDen)
    /\ optimizer.lr = Frac(LrNum * LrDecayNum * LrDecayNum, LrDen * LrDecayDen * LrDecayDen)

\* C14: the report accumulators and the cumulative accumulators are
\* independent windows: a log emission zeroes only the report pair and leaves
\* the cumulative pair alone, a validation checkpoint zeroes only the
\* cumulative pair and leaves the report pair alone.
C14_IndependentWindows ==
    [][/\ pc = "log" =>
             /\ cum_loss' = cum_loss /\ cum_samples' = cum_samples
             /\ (iteration % args.log_every = 0) =>
                    (report_loss' = 0 /\ report_samples' = 0)
             /\ (iteration % args.log_every /= 0) =>
                    (report_loss' = report_loss /\ report_samples' = report_samples)
       /\ pc = "valid" =>
             /\ report_loss' = report_loss /\ report_samples' = report_samples
             /\ (iteration % args.valid_niter = 0) =>
                    (cum_loss' = 0 /\ cum_samples' = 0)
             /\ (iteration % args.valid_niter /= 0) =>
                    (cum_loss' = cum_loss /\ cum_samples' = cum_samples)
       /\ (report_loss' /= report_loss \/ report_samples' /= report_samples) =>
             pc \in {"for", "log"}
       /\ (cum_loss' /= cum_loss \/ cum_samples' /= cum_samples) =>
             pc \in {"for", "valid"}]_vars

C14_Witness ==
    /\ pc = "validation"
    /\ args.log_every = 2 /\ args.valid_niter = 1
    /\ iteration = 1
    /\ cum_samples = 0 /\ cum_loss = 0
    /\ report_samples > 0 /\ report_loss > 0

\* Positions inside a validation pass and the decisions that follow it.
InValidation ==
    pc \in {"validation", "val_batch", "decide", "save_model", "save_optim", "trial"}

\* C15: a validation pass runs exactly at the iterations whose counter is a
\* multiple of valid-niter, the first at iteration 0 after a single gradient
\* step, and it completes before the next training iteration begins.
C15_ValidationSchedule ==
    /\ [][/\ pc = "valid" =>
                 ((pc' = "validation") <=> (iteration % args.valid_niter = 0))
          /\ (pc' = "validation") => pc = "valid"
          /\ (steps' /= steps \/ iteration' /= iteration) => ~InValidation]_vars
    /\ [](InValidation =>
             /\ iteration % args.valid_niter = 0
             /\ steps = iteration + 1
             /\ writer.n_val = iteration \div args.valid_niter
                                  + (IF pc \in {"validation", "val_batch"} THEN 0 ELSE 1))
    /\ [](pc \in {"for", "while", "done"} =>
             writer.n_val = (iteration + args.valid_niter - 1) \div args.valid_niter)

C15_Witness ==
    /\ pc = "val_batch"
    /\ args.valid_niter = 2
    /\ iteration = 2
    /\ steps = 3
    /\ writer.n_val = 1
    /\ val.idx = 1

\* Positions between two training iterations (and after the last one).
BetweenIterations == pc \in {"for", "while", "done"}

\* C16 as stated: the monitoring output holds one training-loss scalar for
\* every training iteration and one validation-score scalar for every
\* validation pass.
C16_Original ==
    BetweenIterations =>
        (writer.n_loss = iteration /\ writer.n_val = Len(val_scores))

\* C16 amended: the monitoring output holds one training-loss scalar for every
\* training iteration whose counter is a multiple of log-every, and one
\* validation-score scalar for every validation pass that returned a score.
C16_Scalars ==
    /\ [](BetweenIterations =>
             /\ writer.n_loss = (iteration + args.log_every - 1) \div args.log_every
             /\ writer.n_val = Len(val_scores))
    /\ [][/\ (writer'.n_loss /= writer.n_loss) =>
                 /\ pc = "log" /\ iteration % args.log_every = 0
                 /\ writer'.n_loss = writer.n_loss + 1
          /\ (writer'.n_val /= writer.n_val) =>
                 /\ pc = "val_batch" /\ pc' = "decide"
                 /\ writer'.n_val = writer.n_val + 1]_vars

C16_Witness ==
    /\ pc = "for"
    /\ args.log_every = 2 /\ args.valid_niter = 1
    /\ iteration = 3
    /\ writer.n_loss = 2
    /\ writer.n_val = 3

\* C17: every checkpoint reload is preceded by a checkpoint write of the same
\* run: the first validation always saves, so a decay trial never loads a file
\* this run has not written.
C17_ReloadAfterWrite ==
    /\ [](pc = "trial" =>
             /\ model_file.exists /\ optim_file.exists
             /\ model_file.val >= 1 /\ optim_file.val >= 1)
    /\ [](Len(val_scores) = 1 =>
             \/ pc = "save_model"
             \/ pc = "save_optim" /\ model_file.val = 1
             \/ model_file.val = 1 /\ optim_file.val = 1)
    /\ [](pc = "error" => (val.cum_samples = 0 /\ Len(val_scores) = 0))
    /\ [][(pc = "trial" /\ patience = args.patience /\ pc' /= "stopped") =>
             /\ pc' = "incr"
             /\ model'.params = model_file.params
             /\ model_file.iter < iteration]_vars

C17_Witness ==
    /\ pc = "incr"
    /\ num_trial = 1
    /\ args.patience = 2
    /\ Len(val_scores) = 4
    /\ model_file.val = 2
    /\ model.params = model_file.params
    /\ optimizer.state = optim_file.params

RECURSIVE Pow(_, _)
Pow(b, k) == IF k = 0 THEN 1 ELSE b * Pow(b, k - 1)

Running == pc \notin {"done", "stopped", "error"}

\* C18: while training is running the learning rate of the optimizer is the
\* initial lr times lr-decay to the power of the trial counter; no step other
\* than a decay trial changes it.
C18_LrFormula ==
    /\ [](Running =>
             /\ optimizer.lr.num * LrDen * Pow(LrDecayDen, num_trial)
                   = LrNum * Pow(LrDecayNum, num_trial) * optimizer.lr.den
             /\ optimizer.lr.den > 0)
    /\ [][(optimizer'.lr /= optimizer.lr) =>
             (pc = "trial" /\ patience = args.patience /\ num_trial' = num_trial + 1)]_vars

C18_Witness ==
    /\ pc = "incr"
    /\ num_trial = 2
    /\ Len(val_scores) = 4
    /\ model_file.val = 3
    /\ optim_file.lr = Frac(LrNum * LrDecayNum, LrDen * LrDecayDen)
    /\ optimizer.lr = Frac(LrNum * LrDecayNum * LrDecayNum, LrDen * LrDecayDen * LrDecayDen)

\* C19: the trial counter never decreases and no improving validation resets
\* it, so early stop fires at the max-num-trial-th decay trial of the whole
\* run; for a patience limit >= 1 and max-num-trial >= 1, after every
\* validation of a loop that is still running 0 <= patience < patience limit
\* and 0 <= num_trial < max-num-trial.
C19_TrialCounter ==
    /\ [][/\ num_trial' >= num_trial
          /\ (num_trial' /= num_trial) =>
                 (pc = "trial" /\ patience = args.patience /\ num_trial' = num_trial + 1)
          /\ (pc' = "stopped") =>
                 (pc = "trial" /\ num_trial' = args.max_num_trial)]_vars
    /\ []((args.patience >= 1 /\ args.max_num_trial >= 1
            /\ pc \notin {"trial", "stopped", "error"}) =>
             /\ 0 <= patience /\ patience < args.patience
             /\ 0 <= num_trial /\ num_trial < args.max_num_trial)

C19_Witness ==
    /\ pc = "stopped"
    /\ args.max_num_trial = 2
    /\ num_trial = 2
    /\ Len(val_scores) = 4
    /\ model_file.val = 3

====
